---- MODULE Spec2Model ----
(***************************************************************************)
(* WalletsListManager (packages/sdk/src/wallets-list-manager.ts).          *)
(*                                                                         *)
(* JavaScript objects are functions from the names of their own properties *)
(* to values, so that `'f' in obj` is f \in DOMAIN obj and an object       *)
(* spread is a function override.  A JavaScript value that the code tests  *)
(* with Array.isArray is a record [isArray, items].  Promises, their       *)
(* reaction lists and the microtask queue are explicit, because the cache  *)
(* of the manager holds a promise and is cleared by a promise callback.    *)
(***************************************************************************)
EXTENDS Integers, Sequences, FiniteSets, TLC

VARIABLES
    walletsListCache,   \* the field: Null or the id of a fetchWalletsList() promise
    pstate,             \* promise id -> "unused" | "pending" | "fulfilled" | "rejected"
    pvalue,             \* promise id -> settled result of fetchWalletsList()
    preactions,         \* promise id -> reactions registered on the promise, in order
    fstage,             \* promise id -> await point fetchWalletsList() is suspended at
    wire,               \* promise id -> what the transport delivers for that fetch
    calls,              \* the getWallets()/getEmbeddedWallet() calls made so far
    microtasks,         \* the microtask (job) queue, FIFO
    running,            \* "idle" between jobs | "user" while caller code runs
    userJobs,           \* number of microtasks the caller code has queued
    env                 \* what the InjectedProvider collaborator answers

vars == <<walletsListCache, pstate, pvalue, preactions, fstage, wire, calls,
          microtasks, running, userJobs, env>>

----------------------------------------------------------------------------
(* Bounds *)

MaxCalls == 3
MaxFetch == 2
MaxUserJobs == 1
MaxWallets == 2
MaxBridge == 2
MaxFairCalls == 2

----------------------------------------------------------------------------
(* JavaScript values *)

Null == 0
Undefined == "<undefined>"

\* 'f' in obj
Has(obj, f) == f \in DOMAIN obj

\* obj.f
Get(obj, f) == IF f \in DOMAIN obj THEN obj[f] ELSE Undefined

\* truthiness of a string-valued (or undefined) property
Truthy(v) == v # Undefined /\ v # ""

\* null, a number, a string: anything the test `!v || typeof v !== 'object'` rejects
Primitive == [primitive |-> TRUE]

IsObject(v) == ~("primitive" \in DOMAIN v)

Arr(s) == [isArray |-> TRUE, items |-> s]

NotArray == [isArray |-> FALSE, items |-> <<>>]

\* obj with property f set to v (an assignment obj.f = v)
Put(obj, f, v) == [k \in DOMAIN obj \cup {f} |-> IF k = f THEN v ELSE obj[k]]

\* the spread written as { ...b, ...a }
SpreadFirstWins(a, b) ==
    [k \in DOMAIN a \cup DOMAIN b |-> IF k \in DOMAIN a THEN a[k] ELSE b[k]]

\* { ...a, ...b }
Spread(a, b) == [k \in DOMAIN a \cup DOMAIN b |-> IF k \in DOMAIN b THEN b[k] ELSE a[k]]

EmptyObject == [k \in {} |-> Undefined]

----------------------------------------------------------------------------
(* isCorrectWalletConfigDTO *)

\* bridge.find(item => item.type === type): index of the first match, 0 for undefined
FindBridge(bridge, type) ==
    IF \E i \in 1..Len(bridge) : bridge[i]["type"] = type
    THEN CHOOSE i \in 1..Len(bridge) :
            /\ bridge[i]["type"] = type
            /\ \A j \in 1..(i - 1) : bridge[j]["type"] # type
    ELSE 0

isCorrectWalletConfigDTO(value) ==
    IF ~IsObject(value) THEN FALSE
    ELSE IF ~Has(value, "name") \/ ~Has(value, "image") \/ ~Has(value, "about_url") THEN FALSE
    ELSE IF ~Has(value, "bridge") \/ ~value["bridge"].isArray
            \/ Len(value["bridge"].items) = 0 THEN FALSE
    ELSE LET bridge == value["bridge"].items IN
         IF \E i \in 1..Len(bridge) : ~IsObject(bridge[i]) \/ ~Has(bridge[i], "type") THEN FALSE
         ELSE LET sseBridge == FindBridge(bridge, "sse")
                  jsBridge == FindBridge(bridge, "js")
              IN  IF sseBridge # 0
                     /\ (\/ ~Has(bridge[sseBridge], "url")
                         \/ ~Truthy(bridge[sseBridge]["url"])
                         \/ ~Truthy(Get(value, "universal_url")))
                  THEN FALSE
                  ELSE IF jsBridge # 0
                          /\ (\/ ~Has(bridge[jsBridge], "key")
                              \/ ~Truthy(bridge[jsBridge]["key"]))
                  THEN FALSE
                  ELSE TRUE

\* only the first element checked
EveryCorrectFirstOnly(list) == list = <<>> \/ isCorrectWalletConfigDTO(Head(list))

\* walletsList.every(wallet => this.isCorrectWalletConfigDTO(wallet)), left to right
RECURSIVE EveryCorrect(_)
EveryCorrect(list) ==
    IF list = <<>> THEN TRUE
    ELSE IF ~isCorrectWalletConfigDTO(Head(list)) THEN FALSE
    ELSE EveryCorrect(Tail(list))

----------------------------------------------------------------------------
(* InjectedProvider (collaborator): its answers are the environment *)

isWalletInjected(e, jsBridgeKey) == jsBridgeKey \in e.injected

isInsideWalletBrowser(e, jsBridgeKey) == jsBridgeKey \in e.embedded

getCurrentlyInjectedWallets(e) == e.current

\* the collaborator raises an exception when method is called
ProviderThrows(e, method) == e.throws = method

----------------------------------------------------------------------------
(* walletConfigDTOListToWalletConfigList *)

\* lines 79-81 with universal_url and deepLink exchanged
ApplyBridgeLinksSwapped(walletConfig, walletConfigDTO, bridge, e) ==
    LET afterSse ==
            IF Get(bridge, "type") = "sse"
            THEN Put(Put(Put(walletConfig,
                     "bridgeUrl", Get(bridge, "url")),
                     "universalLink", Get(walletConfigDTO, "deepLink")),
                     "deepLink", Get(walletConfigDTO, "universal_url"))
            ELSE walletConfig
    IN  IF Get(bridge, "type") = "js"
        THEN LET jsBridgeKey == Get(bridge, "key") IN
             Put(Put(Put(afterSse,
                 "jsBridgeKey", jsBridgeKey),
                 "injected", isWalletInjected(e, jsBridgeKey)),
                 "embedded", isInsideWalletBrowser(e, jsBridgeKey))
        ELSE afterSse

\* every entry that is not "js" handled as an "sse" entry
ApplyBridgeDefaultRemote(walletConfig, walletConfigDTO, bridge, e) ==
    IF Get(bridge, "type") = "js"
    THEN LET jsBridgeKey == Get(bridge, "key") IN
         Put(Put(Put(walletConfig,
             "jsBridgeKey", jsBridgeKey),
             "injected", isWalletInjected(e, jsBridgeKey)),
             "embedded", isInsideWalletBrowser(e, jsBridgeKey))
    ELSE Put(Put(Put(walletConfig,
             "bridgeUrl", Get(bridge, "url")),
             "universalLink", Get(walletConfigDTO, "universal_url")),
             "deepLink", Get(walletConfigDTO, "deepLink"))

\* the body of walletConfigDTO.bridge.forEach, for one bridge entry
ApplyBridge(walletConfig, walletConfigDTO, bridge, e) ==
    LET afterSse ==
            IF Get(bridge, "type") = "sse"
            THEN Put(Put(Put(walletConfig,
                     "bridgeUrl", Get(bridge, "url")),
                     "universalLink", Get(walletConfigDTO, "universal_url")),
                     "deepLink", Get(walletConfigDTO, "deepLink"))
            ELSE walletConfig
    IN  IF Get(bridge, "type") = "js"
        THEN LET jsBridgeKey == Get(bridge, "key") IN
             Put(Put(Put(afterSse,
                 "jsBridgeKey", jsBridgeKey),
                 "injected", isWalletInjected(e, jsBridgeKey)),
                 "embedded", isInsideWalletBrowser(e, jsBridgeKey))
        ELSE afterSse

RECURSIVE ForEachBridge(_, _, _, _)
ForEachBridge(walletConfig, walletConfigDTO, bridges, e) ==
    IF bridges = <<>> THEN walletConfig
    ELSE ForEachBridge(ApplyBridge(walletConfig, walletConfigDTO, Head(bridges), e),
                       walletConfigDTO, Tail(bridges), e)

\* the callback of line 68 throws a TypeError: a property of null is read, or
\* forEach is not a function of the bridge value (no element that passed
\* isCorrectWalletConfigDTO does)
MapThrows(walletConfigDTO) ==
    \/ ~IsObject(walletConfigDTO)
    \/ ~Has(walletConfigDTO, "bridge")
    \/ ~walletConfigDTO["bridge"].isArray
    \/ \E i \in 1..Len(walletConfigDTO["bridge"].items) :
          ~IsObject(walletConfigDTO["bridge"].items[i])

DTOToWalletConfig(walletConfigDTO, e) ==
    ForEachBridge([name |-> Get(walletConfigDTO, "name"),
                   imageUrl |-> Get(walletConfigDTO, "image"),
                   aboutUrl |-> Get(walletConfigDTO, "about_url"),
                   tondns |-> Get(walletConfigDTO, "tondns")],
                  walletConfigDTO, walletConfigDTO["bridge"].items, e)

walletConfigDTOListToWalletConfigList(walletConfigDTO, e) ==
    [i \in 1..Len(walletConfigDTO) |-> DTOToWalletConfig(walletConfigDTO[i], e)]

----------------------------------------------------------------------------
(* mergeWalletsLists *)

\* [...new Set(list.map(item => item.name)).values()]: first occurrences, in order
RECURSIVE DistinctNames(_, _)
DistinctNames(list, seen) ==
    IF list = <<>> THEN <<>>
    ELSE IF Head(list)["name"] \in seen THEN DistinctNames(Tail(list), seen)
    ELSE <<Head(list)["name"]>> \o DistinctNames(Tail(list), seen \cup {Head(list)["name"]})

\* list.find(item => item.name === name), EmptyObject for undefined
FindByName(list, name) ==
    IF \E i \in 1..Len(list) : list[i]["name"] = name
    THEN list[CHOOSE i \in 1..Len(list) :
                /\ list[i]["name"] = name
                /\ \A j \in 1..(i - 1) : list[j]["name"] # name]
    ELSE EmptyObject

mergeWalletsLists(list1, list2) ==
    LET names == DistinctNames(list1 \o list2, {}) IN
    [i \in 1..Len(names) |->
        Spread(FindByName(list1, names[i]), FindByName(list2, names[i]))]

----------------------------------------------------------------------------
(* fetchWalletsList: the result its promise settles with *)

Fulfilled(list) == [state |-> "fulfilled", value |-> list, error |-> "", cause |-> ""]

\* the catch of line 62 rethrowing e itself
RejectedUnwrapped(cause) == [state |-> "rejected", value |-> <<>>, error |-> cause,
                             cause |-> ""]

\* throw new FetchWalletsError(e)
Rejected(cause) == [state |-> "rejected", value |-> <<>>, error |-> "FetchWalletsError",
                    cause |-> cause]

NoResult == [state |-> "pending", value |-> <<>>, error |-> "", cause |-> ""]

\* lines 49-61, once `await walletsResponse.json()` has produced the value body
ValidateAndMerge(body, e) ==
    IF ~body.isArray \/ ~EveryCorrect(body.items)
    THEN Rejected("Wrong wallets list format")
    ELSE IF ProviderThrows(e, "getCurrentlyInjectedWallets")             \* line 56
    THEN Rejected("InjectedProvider")
    ELSE IF \E i \in 1..Len(body.items) : MapThrows(body.items[i])
    THEN Rejected("TypeError")
    ELSE IF /\ ProviderThrows(e, "isWalletInjected")                     \* line 88
            /\ \E i \in 1..Len(body.items) :
                  \E j \in 1..Len(body.items[i]["bridge"].items) :
                      Get(body.items[i]["bridge"].items[j], "type") = "js"
    THEN Rejected("InjectedProvider")
    ELSE Fulfilled(mergeWalletsLists(
                walletConfigDTOListToWalletConfigList(body.items, e),
                getCurrentlyInjectedWallets(e)))

\* the whole of fetchWalletsList for one delivery w of the transport
fetchWalletsList(w, e) ==
    IF w.net # "ok" THEN Rejected("network")
    ELSE IF w.parse # "ok" THEN Rejected("json")
    ELSE ValidateAndMerge(w.body, e)

----------------------------------------------------------------------------
(* getEmbeddedWallet, after `await this.getWallets()` *)

isWalletInfoCurrentlyEmbedded(wallet) ==
    Has(wallet, "embedded") /\ wallet["embedded"] = TRUE

RECURSIVE Filter(_)
Filter(list) ==
    IF list = <<>> THEN <<>>
    ELSE IF isWalletInfoCurrentlyEmbedded(Head(list))
         THEN <<Head(list)>> \o Filter(Tail(list))
         ELSE Filter(Tail(list))

NullWallet == [isNull |-> TRUE, wallet |-> EmptyObject]

\* the test of line 37 written as length === 0
EmbeddedOfFirst(walletsList) ==
    LET embeddedWallets == Filter(walletsList) IN
    IF Len(embeddedWallets) = 0 THEN NullWallet
    ELSE [isNull |-> FALSE, wallet |-> embeddedWallets[1]]

EmbeddedOf(walletsList) ==
    LET embeddedWallets == Filter(walletsList) IN
    IF Len(embeddedWallets) # 1 THEN NullWallet
    ELSE [isNull |-> FALSE, wallet |-> embeddedWallets[1]]

----------------------------------------------------------------------------
(* What the transport delivers for one fetch *)

\* fetch() rejects
NetworkError == [net |-> "error", ok |-> FALSE, parse |-> "error", body |-> NotArray]

\* fetch() resolves, walletsResponse.json() rejects
ParseError(ok) == [net |-> "ok", ok |-> ok, parse |-> "error", body |-> NotArray]

\* fetch() resolves with a response of status 2xx (ok) or not, json() resolves with body
Delivery(ok, body) == [net |-> "ok", ok |-> ok, parse |-> "ok", body |-> body]

NoWire == [net |-> "none", ok |-> FALSE, parse |-> "none", body |-> NotArray]

SseBridge(url) == [type |-> "sse", url |-> url]

JsBridge(key) == [type |-> "js", key |-> key]

DTO(name, universal_url, bridge) ==
    [name |-> name, image |-> "i", about_url |-> "a", universal_url |-> universal_url,
     bridge |-> Arr(bridge)]

\* valid elements, and one that lacks its image
ValidA == DTO("A", "uu", <<SseBridge("u"), JsBridge("k1")>>)

ValidB == DTO("B", "uu", <<JsBridge("k2")>>)

InvalidC == [name |-> "C", about_url |-> "a", bridge |-> Arr(<<JsBridge("k1")>>)]

\* the deliveries of the concurrency specification
Wire ==
    { NetworkError,
      ParseError(TRUE),
      Delivery(TRUE, NotArray),
      Delivery(TRUE, Arr(<<ValidA>>)) }

InjectedWallet(name, key, embedded) ==
    [name |-> name, imageUrl |-> "ii", jsBridgeKey |-> key, injected |-> TRUE,
     embedded |-> embedded]

NoProvider == [injected |-> {}, embedded |-> {}, current |-> <<>>, throws |-> "none"]

InsideA == [injected |-> {"k1"}, embedded |-> {"k1"},
            current |-> <<InjectedWallet("A", "k1", TRUE)>>, throws |-> "none"]

Envs == {NoProvider, InsideA}

----------------------------------------------------------------------------
(* Promises and jobs *)

Job(type, id) == [type |-> type, id |-> id]

PromiseIds == 1..MaxFetch

Pending == {k \in PromiseIds : pstate[k] = "pending"}

\* id of the promise the next call of fetchWalletsList() returns
NextPromise == Cardinality({k \in PromiseIds : pstate[k] # "unused"}) + 1

\* the reactions of a settled promise are never queued
ReactionJobsDropped(k) == <<>>

\* jobs queued when a promise settles: one per registered reaction, in order
ReactionJobs(k) == preactions[k]

TypeOK ==
    /\ walletsListCache \in {Null} \cup PromiseIds
    /\ pstate \in [PromiseIds -> {"unused", "pending", "fulfilled", "rejected"}]
    /\ \A k \in PromiseIds : pvalue[k].state \in {"pending", "fulfilled", "rejected"}
    /\ fstage \in [PromiseIds -> {"none", "fetch", "fetched", "json", "parsed", "done"}]
    /\ running \in {"idle", "user"}
    /\ userJobs \in 0..MaxUserJobs
    /\ Len(calls) <= MaxCalls

Init ==
    /\ walletsListCache = Null
    /\ pstate = [k \in PromiseIds |-> "unused"]
    /\ pvalue = [k \in PromiseIds |-> NoResult]
    /\ preactions = [k \in PromiseIds |-> <<>>]
    /\ fstage = [k \in PromiseIds |-> "none"]
    /\ wire = [k \in PromiseIds |-> NoWire]
    /\ calls = <<>>
    /\ microtasks = <<>>
    /\ running = "idle"
    /\ userJobs = 0
    /\ env \in Envs

----------------------------------------------------------------------------
(* getWallets: the synchronous body of the async method *)

\* the test of line 25 left out
NeedsFetchAlways(cache) == TRUE

\* a cached promise that has rejected is treated like an empty cache
NeedsFetchIfFailed(cache) == cache = Null \/ pstate[cache] = "rejected"

\* if (!this.walletsListCache)
NeedsFetch(cache) == cache = Null

\* state in which a call finds the cached promise
Found == IF walletsListCache = Null THEN "empty" ELSE pstate[walletsListCache]

\* A call record.  kind, p (the promise `return this.walletsListCache` hands
\* back), q (state of the promise of the async getWallets() call), result and
\* embedded (what the caller receives) are the call; found, started and
\* inflight record what the call did, for the properties.
NewCall(kind, p, started, inflight) ==
    [kind |-> kind, p |-> p, q |-> "pending", result |-> NoResult,
     r |-> "pending", embedded |-> NullWallet, observed |-> FALSE,
     found |-> Found, started |-> started, inflight |-> inflight]

\* lines 24-31, called from caller code (kind "wallets") or from line 34 (kind "embedded")
CallGetWallets(kind) ==
    /\ Len(calls) < MaxCalls
    /\ LET c == Len(calls) + 1 IN
       IF NeedsFetch(walletsListCache)
       THEN LET k == NextPromise IN
            /\ k <= MaxFetch
            /\ walletsListCache' = k                      \* line 26
            /\ pstate' = [pstate EXCEPT ![k] = "pending"]
            /\ fstage' = [fstage EXCEPT ![k] = "fetch"]   \* suspended at `await fetch(...)`
            /\ preactions' = [preactions EXCEPT ![k] = <<Job("catch", k)>>]   \* line 27
            /\ calls' = Append(calls, NewCall(kind, k, TRUE, Pending \cup {k}))
            /\ microtasks' = Append(microtasks, Job("thenable", c))          \* line 30
       ELSE /\ calls' = Append(calls, NewCall(kind, walletsListCache, FALSE, Pending))
            /\ microtasks' = Append(microtasks, Job("thenable", c))          \* line 30
            /\ UNCHANGED <<walletsListCache, pstate, fstage, preactions>>
    /\ UNCHANGED <<pvalue, wire, userJobs, env>>

----------------------------------------------------------------------------
(* Caller code: runs in a task, in a microtask it queued, or in the          *)
(* continuation of an awaited call                                            *)

StartTask ==
    /\ running = "idle"
    /\ microtasks = <<>>
    /\ running' = "user"
    /\ UNCHANGED <<walletsListCache, pstate, pvalue, preactions, fstage, wire, calls,
                   microtasks, userJobs, env>>

GetWallets ==
    /\ running = "user"
    /\ CallGetWallets("wallets")
    /\ UNCHANGED running

GetEmbeddedWallet ==
    /\ running = "user"
    /\ CallGetWallets("embedded")
    /\ UNCHANGED running

\* the caller defers code to a microtask
QueueUserJob ==
    /\ running = "user"
    /\ userJobs < MaxUserJobs
    /\ userJobs' = userJobs + 1
    /\ microtasks' = Append(microtasks, Job("user", 0))
    /\ UNCHANGED <<walletsListCache, pstate, pvalue, preactions, fstage, wire, calls,
                   running, env>>

\* the caller code returns to the event loop
Return ==
    /\ running = "user"
    /\ running' = "idle"
    /\ UNCHANGED <<walletsListCache, pstate, pvalue, preactions, fstage, wire, calls,
                   microtasks, userJobs, env>>

----------------------------------------------------------------------------
(* The transport is opaque: it settles its promises from a task or a job of  *)
(* its own, or from caller code when it is a stand-in, that is at any point   *)
(* between two steps of the manager                                           *)

\* the promise of fetch(this.walletsListSource) settles (line 46)
FetchSettles(k, w) ==
    /\ fstage[k] = "fetch"
    /\ wire' = [wire EXCEPT ![k] = w]
    /\ fstage' = [fstage EXCEPT ![k] = "fetched"]
    /\ microtasks' = Append(microtasks, Job("cont1", k))
    /\ UNCHANGED <<walletsListCache, pstate, pvalue, preactions, calls, running,
                   userJobs, env>>

\* the promise of walletsResponse.json() settles (line 47)
JsonSettles(k) ==
    /\ fstage[k] = "json"
    /\ fstage' = [fstage EXCEPT ![k] = "parsed"]
    /\ microtasks' = Append(microtasks, Job("cont2", k))
    /\ UNCHANGED <<walletsListCache, pstate, pvalue, preactions, wire, calls, running,
                   userJobs, env>>

----------------------------------------------------------------------------
(* Jobs: the event loop runs the head of the microtask queue when no code runs *)

JobReady(type) ==
    /\ running = "idle"
    /\ microtasks # <<>>
    /\ Head(microtasks).type = type

\* the promise k of fetchWalletsList() settles with result; its reactions are queued
SettlePromise(k, result) ==
    /\ pstate' = [pstate EXCEPT ![k] = result.state]
    /\ pvalue' = [pvalue EXCEPT ![k] = result]
    /\ fstage' = [fstage EXCEPT ![k] = "done"]
    /\ preactions' = [preactions EXCEPT ![k] = <<>>]
    /\ microtasks' = Tail(microtasks) \o ReactionJobs(k)

\* fetchWalletsList resumes after `await fetch(...)`: line 46 throws into the
\* catch of line 62, or line 47 calls json() and suspends again
ResumeAfterFetch ==
    /\ JobReady("cont1")
    /\ LET k == Head(microtasks).id IN
       IF wire[k].net # "ok"
       THEN SettlePromise(k, fetchWalletsList(wire[k], env))
       ELSE /\ fstage' = [fstage EXCEPT ![k] = "json"]
            /\ microtasks' = Tail(microtasks)
            /\ UNCHANGED <<pstate, pvalue, preactions>>
    /\ UNCHANGED <<walletsListCache, wire, calls, running, userJobs, env>>

\* fetchWalletsList resumes after `await walletsResponse.json()` and runs to its end
ResumeAfterJson ==
    /\ JobReady("cont2")
    /\ SettlePromise(Head(microtasks).id, fetchWalletsList(wire[Head(microtasks).id], env))
    /\ UNCHANGED <<walletsListCache, wire, calls, running, userJobs, env>>

\* the callback registered with .finally instead of .catch
RunsCallbackAlways(state) == TRUE

\* line 27 left out
RunsCallbackNever(state) == FALSE

\* a reaction registered with .catch runs its callback only for a rejection
RunsCallback(state) == state = "rejected"

\* the reaction of line 27: () => (this.walletsListCache = null)
CatchCallback ==
    /\ JobReady("catch")
    /\ walletsListCache' = IF RunsCallback(pstate[Head(microtasks).id])
                           THEN Null
                           ELSE walletsListCache
    /\ microtasks' = Tail(microtasks)
    /\ UNCHANGED <<pstate, pvalue, preactions, fstage, wire, calls, running, userJobs, env>>

\* the promise of the async getWallets() call was resolved with the promise p (line 30):
\* the job calls p.then(resolve, reject)
ResolveThenable ==
    /\ JobReady("thenable")
    /\ LET c == Head(microtasks).id
           p == calls[c].p
       IN  IF pstate[p] = "pending"
           THEN /\ preactions' = [preactions EXCEPT ![p] = Append(@, Job("settle", c))]
                /\ microtasks' = Tail(microtasks)
           ELSE /\ microtasks' = Append(Tail(microtasks), Job("settle", c))
                /\ UNCHANGED preactions
    /\ UNCHANGED <<walletsListCache, pstate, pvalue, fstage, wire, calls, running,
                   userJobs, env>>

\* the promise of the getWallets() call settles as p did; the code awaiting it is queued:
\* the caller's, or getEmbeddedWallet's continuation of line 34
SettleCall ==
    /\ JobReady("settle")
    /\ LET c == Head(microtasks).id
           p == calls[c].p
       IN  /\ calls' = [calls EXCEPT ![c].q = pstate[p], ![c].result = pvalue[p]]
           /\ microtasks' = Append(Tail(microtasks),
                                   Job(IF calls[c].kind = "embedded" THEN "embedded"
                                       ELSE "observe", c))
    /\ UNCHANGED <<walletsListCache, pstate, pvalue, preactions, fstage, wire, running,
                   userJobs, env>>

\* lines 35-41, or the rethrow of the rejection awaited at line 34
ResumeGetEmbeddedWallet ==
    /\ JobReady("embedded")
    /\ LET c == Head(microtasks).id IN
       /\ calls' = [calls EXCEPT
                      ![c].r = calls[c].q,
                      ![c].embedded = IF calls[c].q = "fulfilled"
                                      THEN EmbeddedOf(calls[c].result.value)
                                      ELSE NullWallet]
       /\ microtasks' = Append(Tail(microtasks), Job("observe", c))
    /\ UNCHANGED <<walletsListCache, pstate, pvalue, preactions, fstage, wire, running,
                   userJobs, env>>

\* the caller's continuation of `await manager.getWallets()` / getEmbeddedWallet() starts
Observe ==
    /\ JobReady("observe")
    /\ calls' = [calls EXCEPT ![Head(microtasks).id].observed = TRUE]
    /\ microtasks' = Tail(microtasks)
    /\ running' = "user"
    /\ UNCHANGED <<walletsListCache, pstate, pvalue, preactions, fstage, wire,
                   userJobs, env>>

\* a microtask queued by the caller starts
RunUserJob ==
    /\ JobReady("user")
    /\ microtasks' = Tail(microtasks)
    /\ running' = "user"
    /\ UNCHANGED <<walletsListCache, pstate, pvalue, preactions, fstage, wire, calls,
                   userJobs, env>>

Next ==
    \/ StartTask
    \/ GetWallets
    \/ GetEmbeddedWallet
    \/ QueueUserJob
    \/ Return
    \/ \E k \in PromiseIds, w \in Wire : FetchSettles(k, w)
    \/ \E k \in PromiseIds : JsonSettles(k)
    \/ ResumeAfterFetch
    \/ ResumeAfterJson
    \/ CatchCallback
    \/ ResolveThenable
    \/ SettleCall
    \/ ResumeGetEmbeddedWallet
    \/ Observe
    \/ RunUserJob

Spec == Init /\ [][Next]_vars

\* the event loop runs the job at the head of the microtask queue
RunJob ==
    \/ ResumeAfterFetch
    \/ ResumeAfterJson
    \/ CatchCallback
    \/ ResolveThenable
    \/ SettleCall
    \/ ResumeGetEmbeddedWallet
    \/ Observe
    \/ RunUserJob

\* Scheduling: caller code runs to completion and returns to the event loop,
\* the event loop runs a queued job whenever no code is running, and the
\* transport settles every promise it has handed out.
Fairness ==
    /\ WF_vars(Return)
    /\ WF_vars(RunJob)
    /\ \A k \in PromiseIds : WF_vars(\E w \in Wire : FetchSettles(k, w))
    /\ \A k \in PromiseIds : WF_vars(JsonSettles(k))

\* The fair specification: the machine of Spec with a caller that makes at
\* most MaxFairCalls calls, in one environment, and a transport that fails or
\* delivers a valid list.
FairWire == {NetworkError, Delivery(TRUE, Arr(<<ValidA>>))}

InitFair == Init /\ env = NoProvider

NextFair ==
    \/ StartTask
    \/ Len(calls) < MaxFairCalls /\ GetWallets
    \/ Len(calls) < MaxFairCalls /\ GetEmbeddedWallet
    \/ QueueUserJob
    \/ Return
    \/ \E k \in PromiseIds, w \in FairWire : FetchSettles(k, w)
    \/ \E k \in PromiseIds : JsonSettles(k)
    \/ ResumeAfterFetch
    \/ ResumeAfterJson
    \/ CatchCallback
    \/ ResolveThenable
    \/ SettleCall
    \/ ResumeGetEmbeddedWallet
    \/ Observe
    \/ RunUserJob

SpecFair == InitFair /\ [][NextFair]_vars /\ Fairness

----------------------------------------------------------------------------
(* The sequential specification: one delivery of the transport, drawn from  *)
(* the bounded set of responses below, and calls that run to completion      *)
(* one after the other (no call is made while another is pending).           *)

\* sequences over S of length 0..n
SeqsUpTo(S, n) == UNION {[1..m -> S] : m \in 0..n}

InsertAt(s, i, e) == SubSeq(s, 1, i - 1) \o <<e>> \o SubSeq(s, i, Len(s))

\* objs, and every obj of it with property f set to a value of vals
WithOptional(objs, f, vals) == objs \cup {Put(o, f, v) : o \in objs, v \in vals}

BridgeEntries ==
    { Primitive, [url |-> "u"],
      SseBridge("u"), SseBridge(""), [type |-> "sse"],
      JsBridge("k1"), JsBridge(""), [type |-> "js"],
      [type |-> "http"] }

\* elements with correct name, image and about_url, and any bridge property
BridgeElements ==
    WithOptional(
      WithOptional(
        WithOptional({[name |-> "A", image |-> "i", about_url |-> "a"]},
                     "bridge", {NotArray} \cup {Arr(b) : b \in SeqsUpTo(BridgeEntries, MaxBridge)}),
        "universal_url", {"", "uu"}),
      "deepLink", {"dl"})

\* elements with a correct bridge, and name, image and about_url missing, empty or set
FieldElements ==
    WithOptional(
      WithOptional(
        WithOptional({[universal_url |-> "uu", bridge |-> Arr(<<SseBridge("u")>>)]},
                     "name", {"", "A"}),
        "image", {"", "i"}),
      "about_url", {"", "a"})

Elements == BridgeElements \cup FieldElements \cup {Primitive}

Fillers == {ValidA, ValidB, InvalidC}

\* arrays of length n with at most one element outside Fillers
ArraysOfLen(n) ==
    [1..n -> Fillers]
    \cup (IF n = 0 THEN {}
          ELSE {InsertAt(f, i, e) : f \in [1..(n - 1) -> Fillers], i \in 1..n, e \in Elements})

Bodies == {NotArray} \cup {Arr(a) : a \in UNION {ArraysOfLen(n) : n \in 0..MaxWallets}}

SeqWire ==
    {NetworkError, ParseError(TRUE), Delivery(FALSE, Arr(<<ValidB>>))}
    \cup {Delivery(TRUE, b) : b \in Bodies}

SeqEnvs ==
    { NoProvider,
      InsideA,
      [injected |-> {"k1"}, embedded |-> {"k1"}, current |-> <<>>, throws |-> "none"],
      [injected |-> {"k1", "k2"}, embedded |-> {"k1", "k2"}, current |-> <<>>,
       throws |-> "none"],
      [injected |-> {}, embedded |-> {}, current |-> <<InjectedWallet("C", "k3", TRUE)>>,
       throws |-> "none"],
      [injected |-> {"k1"}, embedded |-> {"k1"},
       current |-> <<InjectedWallet("A", "k1", FALSE)>>, throws |-> "none"],
      [NoProvider EXCEPT !.throws = "getCurrentlyInjectedWallets"],
      [NoProvider EXCEPT !.throws = "isWalletInjected"] }

InitSeq ==
    /\ walletsListCache = Null
    /\ pstate = [k \in PromiseIds |-> "unused"]
    /\ pvalue = [k \in PromiseIds |-> NoResult]
    /\ preactions = [k \in PromiseIds |-> <<>>]
    /\ fstage = [k \in PromiseIds |-> "none"]
    /\ \E w \in SeqWire : wire = [k \in PromiseIds |-> IF k = 1 THEN w ELSE NoWire]
    /\ calls = <<>>
    /\ microtasks = <<>>
    /\ running = "idle"
    /\ userJobs = 0
    /\ env \in SeqEnvs

\* a call of getWallets() (lines 24-31) awaited to its end: when it starts the fetch,
\* fetchWalletsList (lines 44-65) runs on the delivery and the reaction of line 27
\* has run by the time the caller resumes
SeqCall(kind) ==
    /\ \A c \in 1..Len(calls) : calls[c].kind # kind
    /\ IF NeedsFetch(walletsListCache)
       THEN LET result == fetchWalletsList(wire[1], env)
                call == NewCall(kind, 1, TRUE, {1})
            IN  /\ pstate[1] = "unused"
                /\ pstate' = [pstate EXCEPT ![1] = result.state]
                /\ pvalue' = [pvalue EXCEPT ![1] = result]
                /\ fstage' = [fstage EXCEPT ![1] = "done"]
                /\ walletsListCache' = IF RunsCallback(result.state) THEN Null ELSE 1
                /\ calls' = Append(calls,
                       [call EXCEPT
                          !.q = result.state, !.result = result, !.observed = TRUE,
                          !.r = IF kind = "embedded" THEN result.state ELSE "pending",
                          !.embedded = IF kind = "embedded" /\ result.state = "fulfilled"
                                       THEN EmbeddedOf(result.value) ELSE NullWallet])
       ELSE LET result == pvalue[walletsListCache]
                call == NewCall(kind, walletsListCache, FALSE, {})
            IN  /\ calls' = Append(calls,
                       [call EXCEPT
                          !.q = result.state, !.result = result, !.observed = TRUE,
                          !.r = IF kind = "embedded" THEN result.state ELSE "pending",
                          !.embedded = IF kind = "embedded" /\ result.state = "fulfilled"
                                       THEN EmbeddedOf(result.value) ELSE NullWallet])
                /\ UNCHANGED <<walletsListCache, pstate, pvalue, fstage>>
    /\ UNCHANGED <<preactions, wire, microtasks, running, userJobs, env>>

SeqGetWallets == SeqCall("wallets")

SeqGetEmbeddedWallet == SeqCall("embedded")

NextSeq == SeqGetWallets \/ SeqGetEmbeddedWallet

SpecSeq == InitSeq /\ [][NextSeq]_vars

----------------------------------------------------------------------------
(* Properties *)

CallIds == 1..Len(calls)

Settled(c) == calls[c].q # "pending"

\* number of fetches started so far
FetchesStarted == Cardinality({k \in PromiseIds : pstate[k] # "unused"})

FailedResolutions == Cardinality({k \in PromiseIds : pstate[k] = "rejected"})

\* C1: in every interleaving of getWallets() calls and fetch settlements at most
\* one fetch is outstanding, and a call issued while a fetch is in flight starts
\* no fetch and is handed the in-flight promise.
C1_AtMostOneFetchOutstanding ==
    /\ Cardinality(Pending) <= 1
    /\ \A c \in CallIds :
          calls[c].found = "pending"
              => ~calls[c].started /\ calls[c].inflight = {calls[c].p}

\* two calls share a promise that the second found in flight
C1_Witness ==
    \E c, d \in CallIds :
        /\ c < d
        /\ calls[c].started
        /\ calls[d].found = "pending"
        /\ calls[d].p = calls[c].p

\* C2: getWallets() hands back the cached promise only if it is in flight or
\* fulfilled; a call that finds the cached promise already rejected (before the
\* reaction of line 27 has run) starts a new resolution.
C2_NeverReturnsFailedResolution ==
    \A c \in CallIds :
        /\ ~calls[c].started => calls[c].found \in {"pending", "fulfilled"}
        /\ calls[c].found = "rejected" => calls[c].started

\* C3 as stated: at the moment a caller observes the rejection of its
\* getWallets() promise the cache is empty.
C3_CacheEmptyWhenRejectionObserved ==
    [][\A c \in CallIds :
          (~calls[c].observed /\ calls'[c].observed /\ calls'[c].q = "rejected")
              => walletsListCache' = Null]_vars

\* C3 amended: at the moment a caller observes the rejection of its getWallets()
\* promise the cache no longer holds the failed promise (it is empty or holds a
\* newer resolution), and no call issued after a rejection was observed is
\* handed the promise of that failure.
C3_FailedResolutionNotReused ==
    [][/\ \A c \in CallIds :
             (~calls[c].observed /\ calls'[c].observed /\ calls'[c].q = "rejected")
                 => walletsListCache' # calls[c].p
       /\ Len(calls') > Len(calls)
             => \A c \in CallIds :
                   (calls[c].observed /\ calls[c].q = "rejected")
                       => calls'[Len(calls')].p # calls[c].p]_vars

\* a caller has observed a rejection and a later call started a fresh fetch
C3_Witness ==
    \E c, d \in CallIds :
        /\ c < d
        /\ calls[c].observed
        /\ calls[c].q = "rejected"
        /\ calls[d].found = "empty"
        /\ calls[d].started
        /\ calls[d].p # calls[c].p

\* C4: once a resolution has succeeded the cache keeps its promise; every later
\* call starts no fetch and resolves to the same catalog, and the fetches
\* started never exceed one plus the failed resolutions.
C4_SuccessIsRetained ==
    /\ \A k \in PromiseIds : pstate[k] = "fulfilled" => walletsListCache = k
    /\ \A c \in CallIds :
          calls[c].found = "fulfilled"
              => /\ ~calls[c].started
                 /\ pstate[calls[c].p] = "fulfilled"
                 /\ Settled(c) => /\ calls[c].q = "fulfilled"
                                  /\ calls[c].result = pvalue[calls[c].p]
    /\ FetchesStarted <= 1 + FailedResolutions

\* after a failure and a successful retry, a later call has resolved from the cache
C4_Witness ==
    \E c \in CallIds :
        /\ calls[c].found = "fulfilled"
        /\ calls[c].observed
        /\ calls[c].q = "fulfilled"
        /\ FailedResolutions >= 1

\* C5: calls that arrive while the same fetch is in flight settle alike: all
\* fulfilled with the same catalog or all rejected with the same error.
C5_SharedFetchSettlesAlike ==
    \A c, d \in CallIds :
        (calls[c].inflight \cap calls[d].inflight # {} /\ Settled(c) /\ Settled(d))
            => /\ calls[c].q = calls[d].q
               /\ calls[c].result = calls[d].result

\* two calls of one fetch have both been rejected
C5_Witness ==
    \E c, d \in CallIds :
        /\ c # d
        /\ calls[c].inflight \cap calls[d].inflight # {}
        /\ calls[c].q = "rejected"
        /\ calls[d].q = "rejected"

\* the parsed JSON value of the fetch that call c was handed
Parsed(c) == wire[calls[c].p].net = "ok" /\ wire[calls[c].p].parse = "ok"

BodyOf(c) == wire[calls[c].p].body

\* indices of the descriptors whose "is embedding" flag is true
Embedding(list) ==
    {i \in 1..Len(list) : Has(list[i], "embedded") /\ list[i]["embedded"] = TRUE}

\* C6: on a successfully resolved catalog getEmbeddedWallet() returns the one
\* descriptor whose embedded flag is true when exactly one has it, and null (not
\* an error) when none or several have it.
C6_EmbeddedWalletIffExactlyOne ==
    \A c \in CallIds :
        (calls[c].kind = "embedded" /\ calls[c].q = "fulfilled")
            => LET list == calls[c].result.value IN
               /\ calls[c].r = "fulfilled"
               /\ Cardinality(Embedding(list)) = 1
                     => /\ ~calls[c].embedded.isNull
                        /\ \A i \in Embedding(list) : calls[c].embedded.wallet = list[i]
               /\ Cardinality(Embedding(list)) # 1 => calls[c].embedded = NullWallet

\* getEmbeddedWallet() returned null on a catalog with two embedding descriptors
C6_Witness ==
    \E c \in CallIds :
        /\ calls[c].kind = "embedded"
        /\ calls[c].r = "fulfilled"
        /\ Cardinality(Embedding(calls[c].result.value)) = 2
        /\ calls[c].embedded.isNull

\* C7: if the parsed response is not an array, or one element fails the
\* structural check, the call rejects with the fetch-failure error, returns no
\* catalog and leaves nothing cached.
C7_ValidationAllOrNothing ==
    \A c \in CallIds :
        (/\ Settled(c)
         /\ Parsed(c)
         /\ \/ ~BodyOf(c).isArray
            \/ \E i \in 1..Len(BodyOf(c).items) :
                  ~isCorrectWalletConfigDTO(BodyOf(c).items[i]))
            => /\ calls[c].q = "rejected"
               /\ calls[c].result.error = "FetchWalletsError"
               /\ calls[c].result.value = <<>>
               /\ pstate[calls[c].p] = "rejected"
               /\ walletsListCache = Null

\* a response whose first element is correct and whose second is not was rejected
C7_Witness ==
    \E c \in CallIds :
        /\ calls[c].q = "rejected"
        /\ Parsed(c)
        /\ BodyOf(c).isArray
        /\ Len(BodyOf(c).items) = 2
        /\ isCorrectWalletConfigDTO(BodyOf(c).items[1])
        /\ ~isCorrectWalletConfigDTO(BodyOf(c).items[2])
        /\ walletsListCache = Null

\* the bridge entries of type t of an element, wherever they stand
EntriesOfType(element, t) ==
    IF IsObject(element) /\ Has(element, "bridge") /\ element["bridge"].isArray
    THEN {j \in 1..Len(element["bridge"].items) :
             LET b == element["bridge"].items[j] IN
             IsObject(b) /\ Has(b, "type") /\ b["type"] = t}
    ELSE {}

\* C8: a response in which some element has an "sse" bridge entry, at any
\* position of its bridge sequence, whose url is missing or empty, or whose
\* element has a missing or empty universal_url, fails the whole fetch.
C8_EverySseEntryChecked ==
    \A c \in CallIds :
        (/\ Settled(c)
         /\ Parsed(c)
         /\ BodyOf(c).isArray
         /\ \E i \in 1..Len(BodyOf(c).items) :
               LET element == BodyOf(c).items[i] IN
               \E j \in EntriesOfType(element, "sse") :
                   \/ ~Truthy(Get(element["bridge"].items[j], "url"))
                   \/ ~Truthy(Get(element, "universal_url")))
            => calls[c].q = "rejected"

\* C9: a response in which some element has a "js" bridge entry, at any
\* position of its bridge sequence, whose key is missing or empty, fails the
\* whole fetch.
C9_EveryJsEntryChecked ==
    \A c \in CallIds :
        (/\ Settled(c)
         /\ Parsed(c)
         /\ BodyOf(c).isArray
         /\ \E i \in 1..Len(BodyOf(c).items) :
               LET element == BodyOf(c).items[i] IN
               \E j \in EntriesOfType(element, "js") :
                   ~Truthy(Get(element["bridge"].items[j], "key")))
            => calls[c].q = "rejected"

\* C10: a response is accepted only if name, image and about_url of every
\* element are present and non-empty; an element in which one of them is
\* present but empty makes the fetch fail.
C10_RequiredFieldsNonEmpty ==
    \A c \in CallIds :
        (calls[c].q = "fulfilled" /\ Parsed(c))
            => \A i \in 1..Len(BodyOf(c).items) :
                  LET element == BodyOf(c).items[i] IN
                  /\ Truthy(Get(element, "name"))
                  /\ Truthy(Get(element, "image"))
                  /\ Truthy(Get(element, "about_url"))

\* the normalized remote list of the response that call c was handed
RemoteOf(c) == walletConfigDTOListToWalletConfigList(BodyOf(c).items, env)

NamesOf(list) == {list[i]["name"] : i \in 1..Len(list)}

\* o is the injected-detected descriptor i laid over the remote descriptor r
Overlay(o, r, i) ==
    /\ DOMAIN o = DOMAIN r \cup DOMAIN i
    /\ \A f \in DOMAIN i : o[f] = i[f]
    /\ \A f \in DOMAIN r \ DOMAIN i : o[f] = r[f]

\* C11: the merged catalog is a union by name: every name of the remote list or
\* of the injected-detected list has exactly one descriptor in the output; for a
\* name of both lists the injected-detected values win on every common field and
\* a field of one side only is taken from that side.
C11_MergeIsUnionByName ==
    \A c \in CallIds :
        (calls[c].q = "fulfilled" /\ Parsed(c))
            => LET out == calls[c].result.value
                   remote == RemoteOf(c)
                   injected == getCurrentlyInjectedWallets(env)
               IN  /\ \A i, j \in 1..Len(out) : i # j => out[i]["name"] # out[j]["name"]
                   /\ NamesOf(out) = NamesOf(remote) \cup NamesOf(injected)
                   /\ \A k \in 1..Len(out) :
                         LET R == {i \in 1..Len(remote) : remote[i]["name"] = out[k]["name"]}
                             I == {j \in 1..Len(injected) :
                                      injected[j]["name"] = out[k]["name"]}
                         IN  /\ (R # {} /\ I # {})
                                   => \E i \in R, j \in I :
                                         Overlay(out[k], remote[i], injected[j])
                             /\ I = {} => \E i \in R : out[k] = remote[i]
                             /\ R = {} => \E j \in I : out[k] = injected[j]

\* a name of both lists whose image differs: the output carries the injected image
\* and the remote about-page
C11_Witness ==
    \E c \in CallIds :
        /\ calls[c].q = "fulfilled"
        /\ Parsed(c)
        /\ \E k \in 1..Len(calls[c].result.value), i \in 1..Len(RemoteOf(c)),
              j \in 1..Len(env.current) :
              /\ RemoteOf(c)[i]["name"] = env.current[j]["name"]
              /\ RemoteOf(c)[i]["imageUrl"] # env.current[j]["imageUrl"]
              /\ calls[c].result.value[k]["name"] = env.current[j]["name"]
              /\ calls[c].result.value[k]["imageUrl"] = env.current[j]["imageUrl"]
              /\ calls[c].result.value[k]["aboutUrl"] = RemoteOf(c)[i]["aboutUrl"]
              /\ Len(calls[c].result.value) = 2

RemoteFacet == {"bridgeUrl", "universalLink", "deepLink"}

InjectableFacet == {"jsBridgeKey", "injected", "embedded"}

\* the bridge entry of type t that stands last in the bridge sequence of element
LastEntryOfType(element, t) ==
    element["bridge"].items[CHOOSE j \in EntriesOfType(element, t) :
                                \A k \in EntriesOfType(element, t) : k <= j]

\* the descriptors of the catalog of call c that come from element i of the
\* response alone: i is the first element of its name and no injected-detected
\* wallet has that name
FromRemoteAlone(c, i) ==
    LET items == BodyOf(c).items
        out == calls[c].result.value
    IN  IF /\ \A j \in 1..(i - 1) : Get(items[j], "name") # Get(items[i], "name")
           /\ Get(items[i], "name") \notin NamesOf(getCurrentlyInjectedWallets(env))
        THEN {k \in 1..Len(out) : out[k]["name"] = Get(items[i], "name")}
        ELSE {}

\* C12: in a response that passes validation, the descriptor of every element
\* with an "sse" bridge entry carries the remote-bridge facet of the element:
\* bridge URL = the url of the sse entry (of the last one, when there are
\* several), universal link = universal_url, deep link = deepLink or undefined;
\* the catalog carries that descriptor.
C12_RemoteFacetEqualsDTO ==
    \A c \in CallIds :
        (calls[c].q = "fulfilled" /\ Parsed(c))
            => \A i \in 1..Len(BodyOf(c).items) :
                  LET element == BodyOf(c).items[i]
                      descriptor == RemoteOf(c)[i]
                  IN  EntriesOfType(element, "sse") # {}
                         => /\ RemoteFacet \subseteq DOMAIN descriptor
                            /\ descriptor["bridgeUrl"]
                                 = Get(LastEntryOfType(element, "sse"), "url")
                            /\ descriptor["universalLink"] = Get(element, "universal_url")
                            /\ descriptor["deepLink"] = Get(element, "deepLink")
                            /\ \A k \in FromRemoteAlone(c, i) :
                                  calls[c].result.value[k] = descriptor

\* the catalog holds the descriptor of an element with one sse entry, a
\* universal_url and a deepLink
C12_Witness ==
    \E c \in CallIds :
        /\ calls[c].q = "fulfilled"
        /\ Parsed(c)
        /\ \E i \in 1..Len(BodyOf(c).items) :
              /\ Cardinality(EntriesOfType(BodyOf(c).items[i], "sse")) = 1
              /\ Has(BodyOf(c).items[i], "deepLink")
              /\ \E k \in FromRemoteAlone(c, i) :
                    /\ calls[c].result.value[k]["bridgeUrl"] = "u"
                    /\ calls[c].result.value[k]["universalLink"] = "uu"
                    /\ calls[c].result.value[k]["deepLink"] = "dl"

\* the response of call c passes lines 49-54
ValidBody(c) ==
    /\ BodyOf(c).isArray
    /\ \A i \in 1..Len(BodyOf(c).items) : isCorrectWalletConfigDTO(BodyOf(c).items[i])

\* the exception raised inside the try block of fetchWalletsList for call c, "" for none
CauseOf(c) ==
    IF wire[calls[c].p].net # "ok" THEN "network"
    ELSE IF wire[calls[c].p].parse # "ok" THEN "json"
    ELSE IF ~ValidBody(c) THEN "Wrong wallets list format"
    ELSE IF ProviderThrows(env, "getCurrentlyInjectedWallets") THEN "InjectedProvider"
    ELSE IF /\ ProviderThrows(env, "isWalletInjected")
            /\ \E i \in 1..Len(BodyOf(c).items) :
                  EntriesOfType(BodyOf(c).items[i], "js") # {}
    THEN "InjectedProvider"
    ELSE ""

\* C13: every failure of a resolution (network, JSON parse, shape validation,
\* exception of the injected-provider collaborator) reaches the caller of
\* getWallets() as the fetch-failure error wrapping the cause, and no other
\* error type is observable.
C13_SingleErrorType ==
    \A c \in CallIds :
        Settled(c)
            => /\ CauseOf(c) # "" <=> calls[c].q = "rejected"
               /\ calls[c].q = "rejected"
                     => /\ calls[c].result.error = "FetchWalletsError"
                        /\ calls[c].result.cause = CauseOf(c)
               /\ calls[c].kind = "embedded" => calls[c].r = calls[c].q

\* the collaborator raised while the descriptors were built, and the call
\* rejected with the wrapped error
C13_Witness ==
    \E c \in CallIds :
        /\ calls[c].q = "rejected"
        /\ ValidBody(c)
        /\ Parsed(c)
        /\ ProviderThrows(env, "isWalletInjected")
        /\ calls[c].result.error = "FetchWalletsError"
        /\ calls[c].result.cause = "InjectedProvider"

\* C14: a response with a non-2xx status is a transport failure: the call
\* rejects with the fetch-failure error and never resolves to a catalog, also
\* when the body is a structurally valid JSON array.
C14_NonOkStatusRejects ==
    \A c \in CallIds :
        (Settled(c) /\ wire[calls[c].p].net = "ok" /\ ~wire[calls[c].p].ok)
            => /\ calls[c].q = "rejected"
               /\ calls[c].result.error = "FetchWalletsError"

\* an element with name, image and about_url whose non-empty bridge sequence
\* holds only entries with a type that is neither "sse" nor "js"
UnrecognizedBridgesOnly(element) ==
    /\ IsObject(element)
    /\ Has(element, "name") /\ Has(element, "image") /\ Has(element, "about_url")
    /\ Has(element, "bridge")
    /\ element["bridge"].isArray
    /\ Len(element["bridge"].items) > 0
    /\ \A j \in 1..Len(element["bridge"].items) :
          LET b == element["bridge"].items[j] IN
          IsObject(b) /\ Has(b, "type") /\ b["type"] \notin {"sse", "js"}

\* C15: an element whose non-empty bridge sequence holds only entries of an
\* unrecognized type passes the structural check (it never makes the fetch
\* fail), and its descriptor carries neither the remote-bridge facet nor the
\* injectable facet.
C15_UnrecognizedBridgesYieldNoFacet ==
    \A c \in CallIds :
        (Settled(c) /\ Parsed(c) /\ BodyOf(c).isArray)
            => \A i \in 1..Len(BodyOf(c).items) :
                  UnrecognizedBridgesOnly(BodyOf(c).items[i])
                      => /\ calls[c].result.cause = "Wrong wallets list format"
                               => \E j \in 1..Len(BodyOf(c).items) :
                                     /\ j # i
                                     /\ ~isCorrectWalletConfigDTO(BodyOf(c).items[j])
                         /\ calls[c].q = "fulfilled"
                               => /\ DOMAIN RemoteOf(c)[i]
                                        \cap (RemoteFacet \cup InjectableFacet) = {}
                                  /\ \A k \in FromRemoteAlone(c, i) :
                                        DOMAIN calls[c].result.value[k]
                                            = {"name", "imageUrl", "aboutUrl", "tondns"}

\* the catalog holds the bare descriptor of an element with one "http" bridge entry
C15_Witness ==
    \E c \in CallIds :
        /\ calls[c].q = "fulfilled"
        /\ Parsed(c)
        /\ \E i \in 1..Len(BodyOf(c).items) :
              /\ UnrecognizedBridgesOnly(BodyOf(c).items[i])
              /\ \E k \in FromRemoteAlone(c, i) :
                    DOMAIN calls[c].result.value[k] = {"name", "imageUrl", "aboutUrl", "tondns"}

\* the callback of line 27 registered on promise k has not run yet
CatchOutstanding(k) ==
    \/ \E i \in 1..Len(preactions[k]) : preactions[k][i] = Job("catch", k)
    \/ \E i \in 1..Len(microtasks) : microtasks[i] = Job("catch", k)

\* C16: the cache goes from a promise to empty only in the step that runs the
\* line-27 callback of that very promise, which has rejected; the callback of
\* an older failed promise never clears a newer pending or fulfilled one.
C16_CallbackClearsOnlyItsOwnPromise ==
    [][(walletsListCache # Null /\ walletsListCache' = Null)
          => /\ microtasks # <<>>
             /\ Head(microtasks) = Job("catch", walletsListCache)
             /\ pstate[walletsListCache] = "rejected"]_vars

\* an older promise failed and its callback ran, a retry put a newer promise
\* in the cache, and that promise is still there, pending or fulfilled
C16_Witness ==
    \E k, j \in PromiseIds :
        /\ k < j
        /\ pstate[k] = "rejected"
        /\ ~CatchOutstanding(k)
        /\ walletsListCache = j
        /\ pstate[j] \in {"pending", "fulfilled"}

\* C17: in a fulfilled catalog, every descriptor that comes from the remote
\* list alone and carries a remote-bridge facet has a non-empty bridge url and
\* a non-empty universal link, also when the element has several "sse" entries.
C17_RemoteFacetNonEmpty ==
    \A c \in CallIds :
        (calls[c].q = "fulfilled" /\ Parsed(c))
            => \A i \in 1..Len(BodyOf(c).items) :
                  \A k \in FromRemoteAlone(c, i) :
                      LET d == calls[c].result.value[k] IN
                      (DOMAIN d \cap RemoteFacet # {})
                          => /\ Truthy(Get(d, "bridgeUrl"))
                             /\ Truthy(Get(d, "universalLink"))

\* the getEmbeddedWallet() calls
EmbeddedCalls == {c \in CallIds : calls[c].kind = "embedded"}

\* C18: getEmbeddedWallet() settles as the getWallets() promise it awaits:
\* it rejects exactly when that promise rejects, with the same FetchWalletsError,
\* and fulfils (with a wallet or null) only when that promise fulfilled.  When
\* its caller observes the rejection the cache no longer holds the failed
\* promise, and a call issued afterwards is not handed that promise: it starts
\* a fetch or joins a newer one.
C18_EmbeddedRejectsAsGetWallets ==
    [][/\ \A c \in EmbeddedCalls' :
             /\ calls'[c].r # "pending"
                   => /\ calls'[c].r = calls'[c].q
                      /\ calls'[c].q = pstate'[calls'[c].p]
                      /\ calls'[c].result = pvalue'[calls'[c].p]
             /\ calls'[c].r = "rejected"
                   => calls'[c].result.error = "FetchWalletsError"
             /\ calls'[c].q = "rejected" /\ calls'[c].observed
                   => calls'[c].r = "rejected"
       /\ \A c \in EmbeddedCalls :
             (~calls[c].observed /\ calls'[c].observed /\ calls'[c].r = "rejected")
                 => walletsListCache' # calls[c].p
       /\ Len(calls') > Len(calls)
             => \A c \in EmbeddedCalls :
                   (calls[c].observed /\ calls[c].r = "rejected")
                       => LET d == calls'[Len(calls')] IN
                          /\ d.p # calls[c].p
                          /\ d.started \/ d.p > calls[c].p]_vars

\* a getEmbeddedWallet() call was rejected, its caller observed it, and a later
\* call found the cache empty and started a fresh fetch
C18_Witness ==
    \E c \in EmbeddedCalls, d \in CallIds :
        /\ c < d
        /\ calls[c].observed
        /\ calls[c].r = "rejected"
        /\ calls[c].result.error = "FetchWalletsError"
        /\ calls[d].found = "empty"
        /\ calls[d].started

\* C19: under fair scheduling of the transport and of the queued jobs, the
\* promise of every getWallets() call eventually settles, and whenever the
\* cache holds a rejected promise it eventually becomes empty.
C19_CallsSettleAndFailedCacheEmpties ==
    /\ \A c \in 1..MaxFairCalls :
          (Len(calls) >= c) ~> (Len(calls) >= c /\ calls[c].q # "pending")
    /\ \A k \in PromiseIds :
          (walletsListCache = k /\ pstate[k] = "rejected") ~> (walletsListCache = Null)

\* the cache was emptied after a failed resolution whose calls, one of them
\* joining the fetch in flight, have all been rejected
C19_Witness ==
    /\ walletsListCache = Null
    /\ \E k \in PromiseIds : pstate[k] = "rejected"
    /\ \E c, d \in CallIds :
          /\ c < d
          /\ calls[d].found = "pending"
          /\ calls[c].q = "rejected"
          /\ calls[d].q = "rejected"
    /\ \A c \in CallIds : calls[c].q # "pending"

====
